---- MODULE Spec2Model ----
(***************************************************************************)
(* A model of the Retrier class of src/src/retrier.js: a queue of retry    *)
(* jobs under a concurrency ceiling, with backoff, timeout and abort.      *)
(*                                                                         *)
(* JavaScript runs every callback to completion on one thread, so every    *)
(* action below is one whole callback: a retry() call, a timer callback,   *)
(* a promise continuation (.then/.catch/.finally handler) or an abort      *)
(* listener.  The operation passed to retry() and the predicate passed to  *)
(* the constructor are opaque: what an invocation of the operation does    *)
(* (throws, returns a non-thenable, returns a thenable that later fulfils  *)
(* or rejects with a retryable or a non-retryable error) is chosen         *)
(* nondeterministically at each invocation and each settlement.            *)
(***************************************************************************)
EXTENDS Integers, Sequences, FiniteSets, TLC

\* Bounds of the model.
MaxJobs == 2          \* number of retry() calls
TimeoutOption == 2    \* options.timeout given to the constructor, in ms
MaxDelayOption == 1   \* options.maxDelay given to the constructor, in ms
MaxConcurrency == 2   \* options.concurrency is drawn from 1..MaxConcurrency
QueueJobs == 3        \* number of retry() calls when none passes a signal
BackoffTimeout == 6   \* options.timeout when the backoff is followed
BackoffMaxDelay == 3  \* options.maxDelay when the backoff is followed
BackoffJobs == 2      \* number of retry() calls when the backoff is followed

Max(a, b) == IF a >= b THEN a ELSE b
Min(a, b) == IF a <= b THEN a ELSE b

Jobs == 1..Max(MaxJobs, QueueJobs)

VARIABLES
    retrier,        \* what new Retrier(check, options) gave: the instance or a throw
    timeout,        \* #timeout
    maxDelay,       \* #maxDelay
    concurrency,    \* #concurrency
    pending,        \* #pending: sequence of jobs whose closure waits for admission
    retrying,       \* #retrying: sequence of jobs whose RetryTask waits for a retry
    working,        \* #working
    timerId,        \* TRUE iff #timerId names a timer that has not fired yet
    timers,         \* number of setTimeout callbacks scheduled and not yet fired
    task,           \* the RetryTask objects: job -> [error, timestamp, lastAttempt]
    promise,        \* job -> state of the promise created by retry()
    signal,         \* job -> "none" | "idle" | "aborted": options.signal
    listener,       \* job -> TRUE iff the abort listener of line 332 is registered
    inflight,       \* attempts whose awaitable has not settled yet
    finallies,      \* number of .finally reactions (line 450) waiting to run
    lost,           \* jobs whose retry invocation threw out of #processQueue
    submitted,      \* number of retry() calls made so far
    calls,          \* job -> number of invocations of its operation
    hist,           \* job -> what each invocation did, in order
    inc,            \* job -> number of #working++ done for the job
    dec,            \* job -> number of #working-- done for the job
    checks,         \* job -> number of calls of the predicate on the job's errors
    settles,        \* job -> number of resolve/reject calls on the job's promise
    seen            \* job -> the jobs whose promise was settled when the job's
                    \* operation was first invoked

config == <<retrier, timeout, maxDelay, concurrency>>
vars == <<retrier, timeout, maxDelay, concurrency, pending, retrying, working, timerId,
          timers, task, promise, signal, listener, inflight, finallies, lost,
          submitted, calls, hist, inc, dec, checks, settles, seen>>

(***************************************************************************)
(* Date.now().  The code reads timestamps only through differences (lines  *)
(* 54, 55 and 172), so the clock's reading is kept fixed at Horizon and a  *)
(* tick moves every stored timestamp one millisecond into the past         *)
(* instead.  A stored timestamp stops at 0, which is Horizon > timeout and *)
(* Horizon >= maxDelay in the past: further in the past than any           *)
(* comparison of the code distinguishes.                                   *)
(***************************************************************************)
Horizon == Max(timeout + 1, maxDelay)
Date_now == Horizon

----------------------------------------------------------------------------
\* Values

\* What one invocation of the operation does before it returns.
Kinds == {"throw", "throwOther", "value", "thenable"}

\* The error an attempt fails with; retryable is what the predicate answers.
OpError(t, n, r) == [name |-> "Error", job |-> t, attempt |-> n, retryable |-> r]

\* The value an attempt produces; awaited is FALSE for a non-thenable result.
OpValue(t, n, aw) == [job |-> t, attempt |-> n, awaited |-> aw]

\* new Error(`Synchronous error: ${error.message}`, { cause: error })
SyncError(e) == [name |-> "Synchronous error", cause |-> e]

\* new Error("Result is not a promise.")
NotPromiseError == [name |-> "Result is not a promise."]

\* signal.reason of the job's AbortSignal
AbortReason(t) == [name |-> "AbortError", job |-> t]

\* new Error("Missing function to check errors")
MissingCheckError == [name |-> "Missing function to check errors"]

\* The values passed to the constructor as check, and typeof of each.
CheckArgs == {"function", "undefined", "null", "string", "object"}

typeOf(c) == IF c = "null" THEN "object" ELSE c

\* A constructor that takes whatever it is given as check.
ConstructorNoTypeCheck(c) == [check |-> c, state |-> "created"]

\* The constructor (lines 241-251) called with check c: it throws before
\* any field is assigned, or returns the instance.
Constructor(c) ==
    IF typeOf(c) # "function"
    THEN [check |-> c, state |-> "threw", reason |-> MissingCheckError]
    ELSE [check |-> c, state |-> "created"]

\* this.#check(error)
check(e) == e.retryable

Pending == [state |-> "pending"]
Fulfilled(v) == [state |-> "fulfilled", value |-> v]
Rejected(e) == [state |-> "rejected", reason |-> e]
NoPromise == [state |-> "none"]
Threw(e) == [state |-> "threw", reason |-> e]

----------------------------------------------------------------------------
\* The state as one record, so that a callback is a composition of operators.

Cur == [pending |-> pending, retrying |-> retrying, working |-> working,
        timerId |-> timerId, timers |-> timers, task |-> task,
        promise |-> promise, listener |-> listener, inflight |-> inflight,
        finallies |-> finallies, lost |-> lost, calls |-> calls, hist |-> hist,
        inc |-> inc, dec |-> dec, checks |-> checks, settles |-> settles,
        seen |-> seen]

Commit(s) ==
    /\ pending' = s.pending
    /\ retrying' = s.retrying
    /\ working' = s.working
    /\ timerId' = s.timerId
    /\ timers' = s.timers
    /\ task' = s.task
    /\ promise' = s.promise
    /\ listener' = s.listener
    /\ inflight' = s.inflight
    /\ finallies' = s.finallies
    /\ lost' = s.lost
    /\ calls' = s.calls
    /\ hist' = s.hist
    /\ inc' = s.inc
    /\ dec' = s.dec
    /\ checks' = s.checks
    /\ settles' = s.settles
    /\ seen' = s.seen

----------------------------------------------------------------------------
\* Helpers (lines 53-92)

\* A desired delay that is not capped by maxDelay.
desiredDelay10NoCap(tk, md) ==
    LET timeSinceStart == Max(tk.lastAttempt - tk.timestamp, 1)
    IN  timeSinceStart * 12

\* min(timeSinceStart * 1.2, maxDelay), in tenths of a millisecond
desiredDelay10(tk, md) ==
    LET timeSinceStart == Max(tk.lastAttempt - tk.timestamp, 1)
    IN  Min(timeSinceStart * 12, md * 10)

\* An isTimeToRetry whose delay does not grow by the factor 1.2.
isTimeToRetryNoGrowth(tk, md) ==
    LET timeSinceLastAttempt == Date_now - tk.lastAttempt
        timeSinceStart == Max(tk.lastAttempt - tk.timestamp, 1)
    IN  timeSinceLastAttempt >= Min(timeSinceStart, md)

isTimeToRetry(tk, md) ==
    LET timeSinceLastAttempt == Date_now - tk.lastAttempt
    IN  timeSinceLastAttempt * 10 >= desiredDelay10(tk, md)

\* get age()
age(tk) == Date_now - tk.timestamp

isTimeToBail(tk, to) == age(tk) > to

\* A settle that lets a later call overwrite the outcome.
settleOverwrite(s, t, outcome) ==
    [s EXCEPT !.promise[t] = outcome, !.settles[t] = @ + 1]

\* resolve/reject of the promise made by createPromise(): the first call
\* settles the promise, a later call changes nothing and raises nothing.
settle(s, t, outcome) ==
    [s EXCEPT !.promise[t] = IF @.state = "pending" THEN outcome ELSE @,
              !.settles[t] = @ + 1]

\* A RetryTask that neither #retrying nor a continuation refers to any
\* more is garbage.
discard(s, t) == [s EXCEPT !.task = [u \in (DOMAIN @) \ {t} |-> @[u]]]

\* new RetryTask(fn, error, resolve, reject, signal)
RetryTask(e) == [error |-> e, timestamp |-> Date_now, lastAttempt |-> Date_now]

----------------------------------------------------------------------------
\* The jobs whose promise is settled in s: what an observer of the promises
\* would have seen at that point of a callback.
SettledIn(s) == {u \in DOMAIN s.promise : s.promise[u].state \in {"fulfilled", "rejected"}}

\* A #call that counts the job as working before it invokes fn.
CallCountsFirst(s, t, k) ==
    LET n == s.calls[t] + 1
        s1 == [s EXCEPT !.calls[t] = n, !.working = @ + 1, !.inc[t] = @ + 1,
                        !.seen[t] = SettledIn(s)]
    IN  CASE k \in {"throw", "throwOther"} ->
                settle([s1 EXCEPT !.hist[t] = Append(@, "throw")], t,
                       Rejected(SyncError(OpError(t, n, k = "throw"))))
          [] k = "value" ->
                settle([s1 EXCEPT !.hist[t] = Append(@, "value")], t,
                       Rejected(NotPromiseError))
          [] OTHER ->
                [s1 EXCEPT !.inflight = @ \cup {[job |-> t, attempt |-> n,
                                                 first |-> TRUE, awaitable |-> TRUE]}]

\* A #call without the check of lines 302-306: a non-thenable result is
\* handed to Promise.resolve like any other.
CallNoShapeCheck(s, t, k) ==
    LET n == s.calls[t] + 1
        s1 == [s EXCEPT !.calls[t] = n, !.seen[t] = SettledIn(s)]
    IN  IF k \in {"throw", "throwOther"}
        THEN settle([s1 EXCEPT !.hist[t] = Append(@, "throw")], t,
                    Rejected(SyncError(OpError(t, n, k = "throw"))))
        ELSE [s1 EXCEPT !.working = @ + 1,
                        !.inc[t] = @ + 1,
                        !.hist[t] = IF k = "value" THEN Append(@, "value") ELSE @,
                        !.inflight = @ \cup {[job |-> t, attempt |-> n,
                                              first |-> TRUE,
                                              awaitable |-> (k = "thenable")]}]

\* #call(fn, { signal, promise, resolve, reject }), up to its return:
\* k is what this invocation of fn does.
Call(s, t, k) ==
    LET n == s.calls[t] + 1
        s1 == [s EXCEPT !.calls[t] = n, !.seen[t] = SettledIn(s)]
    IN  CASE k \in {"throw", "throwOther"} ->
                settle([s1 EXCEPT !.hist[t] = Append(@, "throw")], t,
                       Rejected(SyncError(OpError(t, n, k = "throw"))))
          [] k = "value" ->
                settle([s1 EXCEPT !.hist[t] = Append(@, "value")], t,
                       Rejected(NotPromiseError))
          [] OTHER ->
                [s1 EXCEPT !.working = @ + 1,
                           !.inc[t] = @ + 1,
                           !.inflight = @ \cup {[job |-> t, attempt |-> n,
                                                 first |-> TRUE, awaitable |-> TRUE]}]

RECURSIVE processPending(_, _)

\* A #processPending that admits while working <= concurrency.
processPendingOffByOne(s, k) ==
    IF Len(s.pending) > 0 /\ s.working <= concurrency
    THEN LET t == Head(s.pending)
         IN  processPending(Call([s EXCEPT !.pending = Tail(@)], t, k[t]), k)
    ELSE s

\* A #processPending that takes the newest pending job first.
processPendingNewestFirst(s, k) ==
    IF Len(s.pending) > 0 /\ s.working < concurrency
    THEN LET t == s.pending[Len(s.pending)]
         IN  processPending(
                 Call([s EXCEPT !.pending = SubSeq(@, 1, Len(@) - 1)], t, k[t]), k)
    ELSE s

\* #processPending(): k[t] is what the first invocation of job t does.
processPending(s, k) ==
    IF Len(s.pending) > 0 /\ s.working < concurrency
    THEN LET t == Head(s.pending)
         IN  processPending(Call([s EXCEPT !.pending = Tail(@)], t, k[t]), k)
    ELSE s

\* processAgain() of #processQueue: this.#timerId = setTimeout(..., 0)
processAgain(s) == [s EXCEPT !.timers = @ + 1, !.timerId = TRUE]

\* clearTimeout(this.#timerId); this.#timerId = undefined
clearTimer(s) ==
    [s EXCEPT !.timers = IF s.timerId THEN @ - 1 ELSE @, !.timerId = FALSE]

\* A retry attempt that invokes the operation a second time without waiting
\* for the first invocation's awaitable.
attemptTwice(s, t, q) ==
    LET n == s.calls[t] + 1
        s1 == [s EXCEPT !.task[t].lastAttempt = Date_now, !.calls[t] = n + 1]
    IN  IF q \in {"throw", "throwOther"}
        THEN discard([s1 EXCEPT !.hist[t] = Append(@, "throw"),
                                !.lost = @ \cup {t}], t)
        ELSE [s1 EXCEPT !.hist[t] = IF q = "value" THEN Append(@, "value") ELSE @,
                        !.inflight = @ \cup {[job |-> t, attempt |-> m,
                                              first |-> FALSE,
                                              awaitable |-> (q = "thenable")]
                                                : m \in {n, n + 1}}]

\* The last branch of #processQueue (lines 424-453): the retry attempt of
\* task t; q is what this invocation of task.fn does.  A throw of task.fn()
\* leaves #processQueue as an exception: nothing is attached and nothing is
\* scheduled.
attempt(s, t, q) ==
    LET n == s.calls[t] + 1
        s1 == [s EXCEPT !.task[t].lastAttempt = Date_now, !.calls[t] = n]
    IN  IF q \in {"throw", "throwOther"}
        THEN discard([s1 EXCEPT !.hist[t] = Append(@, "throw"),
                                !.lost = @ \cup {t}], t)
        ELSE [s1 EXCEPT !.hist[t] = IF q = "value" THEN Append(@, "value") ELSE @,
                        !.inflight = @ \cup {[job |-> t, attempt |-> n,
                                              first |-> FALSE,
                                              awaitable |-> (q = "thenable")]}]

\* An abandonment that leaves the task in the retry-wait list.
bailRequeues(s, t) ==
    processAgain(settle([s EXCEPT !.working = @ - 1,
                                  !.dec[t] = @ + 1,
                                  !.retrying = Append(@, t)],
                        t, Rejected(s.task[t].error)))

\* An abandonment that rejects with an error made for the occasion.
bailTimeoutError(s, t) ==
    processAgain(discard(settle([s EXCEPT !.working = @ - 1, !.dec[t] = @ + 1],
                                t, Rejected([name |-> "TimeoutError", job |-> t])), t))

\* The abandonment branch of #processQueue (lines 407-414)
bail(s, t) ==
    processAgain(discard(settle([s EXCEPT !.working = @ - 1, !.dec[t] = @ + 1],
                                t, Rejected(s.task[t].error)), t))

\* A #processQueue that does not cancel the timer set by an earlier pass.
processQueueNoClear(s, q) ==
    IF Len(s.retrying) = 0
    THEN IF Len(s.pending) > 0 THEN processAgain(s) ELSE s
    ELSE LET t == Head(s.retrying)
             s2 == [s EXCEPT !.retrying = Tail(@)]
         IN  IF isTimeToBail(s2.task[t], timeout)
             THEN bail(s2, t)
             ELSE IF ~isTimeToRetry(s2.task[t], maxDelay)
             THEN processAgain([s2 EXCEPT !.retrying = Append(@, t)])
             ELSE attempt(s2, t, q)

\* A #processQueue that leaves a task it attempts in the retry-wait list.
processQueueNoShift(s, q) ==
    LET s1 == clearTimer(s)
    IN  IF Len(s1.retrying) = 0
        THEN IF Len(s1.pending) > 0 THEN processAgain(s1) ELSE s1
        ELSE LET t == Head(s1.retrying)
                 s2 == [s1 EXCEPT !.retrying = Tail(@)]
             IN  IF isTimeToBail(s2.task[t], timeout)
                 THEN bail(s2, t)
                 ELSE IF ~isTimeToRetry(s2.task[t], maxDelay)
                 THEN processAgain([s2 EXCEPT !.retrying = Append(@, t)])
                 ELSE attempt(s1, t, q)

\* A #processQueue that puts a task that is not due back at the front.
processQueueRequeuesFront(s, q) ==
    LET s1 == clearTimer(s)
    IN  IF Len(s1.retrying) = 0
        THEN IF Len(s1.pending) > 0 THEN processAgain(s1) ELSE s1
        ELSE LET t == Head(s1.retrying)
                 s2 == [s1 EXCEPT !.retrying = Tail(@)]
             IN  IF isTimeToBail(s2.task[t], timeout)
                 THEN bail(s2, t)
                 ELSE IF ~isTimeToRetry(s2.task[t], maxDelay)
                 THEN processAgain([s2 EXCEPT !.retrying = <<t>> \o @])
                 ELSE attempt(s2, t, q)

\* #processQueue()
processQueue(s, q) ==
    LET s1 == clearTimer(s)
    IN  IF Len(s1.retrying) = 0
        THEN IF Len(s1.pending) > 0 THEN processAgain(s1) ELSE s1
        ELSE LET t == Head(s1.retrying)
                 s2 == [s1 EXCEPT !.retrying = Tail(@)]
             IN  IF isTimeToBail(s2.task[t], timeout)
                 THEN bail(s2, t)
                 ELSE IF ~isTimeToRetry(s2.task[t], maxDelay)
                 THEN processAgain([s2 EXCEPT !.retrying = Append(@, t)])
                 ELSE attempt(s2, t, q)

\* A .then handler of #call that fulfils the caller before it runs the
\* admission loop.
thenFirstResolvesFirst(s, a, k) ==
    LET t == a.job
        s1 == [s EXCEPT !.inflight = @ \ {a},
                        !.hist[t] = Append(@, "ok"),
                        !.working = @ - 1,
                        !.dec[t] = @ + 1]
    IN  processPending(settle(s1, t, Fulfilled(OpValue(t, a.attempt, TRUE))), k)

\* The .then handler of #call (lines 313-319)
thenFirst(s, a, k) ==
    LET t == a.job
        s1 == [s EXCEPT !.inflight = @ \ {a},
                        !.hist[t] = Append(@, "ok"),
                        !.working = @ - 1,
                        !.dec[t] = @ + 1]
    IN  settle(processPending(s1, k), t,
               Fulfilled(OpValue(t, a.attempt, TRUE)))

\* A .catch handler of #call that wraps the failure it rejects with.
catchFirstWraps(s, a, r, q) ==
    LET t == a.job
        e == OpError(t, a.attempt, r)
        s1 == [s EXCEPT !.inflight = @ \ {a},
                        !.hist[t] = Append(@, IF r THEN "retryable" ELSE "fatal"),
                        !.checks[t] = @ + 1]
    IN  IF ~check(e)
        THEN settle([s1 EXCEPT !.working = @ - 1, !.dec[t] = @ + 1], t,
                    Rejected(SyncError(e)))
        ELSE processQueue(
                 [s1 EXCEPT !.task = (t :> RetryTask(e)) @@ @,
                            !.retrying = Append(@, t),
                            !.listener[t] = (signal[t] # "none")], q)

\* A .catch handler of #call that registers no abort listener.
catchFirstNoListener(s, a, r, q) ==
    LET t == a.job
        e == OpError(t, a.attempt, r)
        s1 == [s EXCEPT !.inflight = @ \ {a},
                        !.hist[t] = Append(@, IF r THEN "retryable" ELSE "fatal"),
                        !.checks[t] = @ + 1]
    IN  IF ~check(e)
        THEN settle([s1 EXCEPT !.working = @ - 1, !.dec[t] = @ + 1], t, Rejected(e))
        ELSE processQueue(
                 [s1 EXCEPT !.task = (t :> RetryTask(e)) @@ @,
                            !.retrying = Append(@, t)], q)

\* A .catch handler of #call that gives the slot back when it queues the
\* task for retry.
catchFirstReleasesSlot(s, a, r, q) ==
    LET t == a.job
        e == OpError(t, a.attempt, r)
        s1 == [s EXCEPT !.inflight = @ \ {a},
                        !.hist[t] = Append(@, IF r THEN "retryable" ELSE "fatal"),
                        !.checks[t] = @ + 1,
                        !.working = @ - 1]
    IN  IF ~check(e)
        THEN settle([s1 EXCEPT !.dec[t] = @ + 1], t, Rejected(e))
        ELSE processQueue(
                 [s1 EXCEPT !.task = (t :> RetryTask(e)) @@ @,
                            !.retrying = Append(@, t),
                            !.listener[t] = (signal[t] # "none")], q)

\* A .catch handler of #call that rejects at once when it finds the signal
\* already aborted.
catchFirstChecksAborted(s, a, r, q) ==
    LET t == a.job
        e == OpError(t, a.attempt, r)
        s1 == [s EXCEPT !.inflight = @ \ {a},
                        !.hist[t] = Append(@, IF r THEN "retryable" ELSE "fatal"),
                        !.checks[t] = @ + 1]
    IN  IF ~check(e)
        THEN settle([s1 EXCEPT !.working = @ - 1, !.dec[t] = @ + 1], t, Rejected(e))
        ELSE LET s2 == [s1 EXCEPT !.task = (t :> RetryTask(e)) @@ @,
                                  !.retrying = Append(@, t),
                                  !.listener[t] = (signal[t] # "none")]
             IN  processQueue(IF signal[t] = "aborted"
                              THEN settle(s2, t, Rejected(AbortReason(t)))
                              ELSE s2, q)

\* The .catch handler of #call (lines 320-340)
catchFirst(s, a, r, q) ==
    LET t == a.job
        e == OpError(t, a.attempt, r)
        s1 == [s EXCEPT !.inflight = @ \ {a},
                        !.hist[t] = Append(@, IF r THEN "retryable" ELSE "fatal"),
                        !.checks[t] = @ + 1]
    IN  IF ~check(e)
        THEN settle([s1 EXCEPT !.working = @ - 1, !.dec[t] = @ + 1], t, Rejected(e))
        ELSE processQueue(
                 [s1 EXCEPT !.task = (t :> RetryTask(e)) @@ @,
                            !.retrying = Append(@, t),
                            !.listener[t] = (signal[t] # "none")], q)

\* A .then handler of #processQueue that puts the task back in the queue.
thenRetryRequeues(s, a) ==
    LET t == a.job
        s1 == [s EXCEPT !.inflight = @ \ {a},
                        !.hist[t] = IF a.awaitable THEN Append(@, "ok") ELSE @,
                        !.working = @ - 1,
                        !.dec[t] = @ + 1,
                        !.finallies = @ + 1,
                        !.retrying = Append(@, t)]
    IN  settle(s1, t, Fulfilled(OpValue(t, a.attempt, a.awaitable)))

\* A .then handler of #processQueue that keeps the concurrency slot.
thenRetryKeepsSlot(s, a) ==
    LET t == a.job
        s1 == [s EXCEPT !.inflight = @ \ {a},
                        !.hist[t] = IF a.awaitable THEN Append(@, "ok") ELSE @,
                        !.finallies = @ + 1]
    IN  discard(settle(s1, t, Fulfilled(OpValue(t, a.attempt, a.awaitable))), t)

\* The .then handler of #processQueue (lines 430-434)
thenRetry(s, a) ==
    LET t == a.job
        s1 == [s EXCEPT !.inflight = @ \ {a},
                        !.hist[t] = IF a.awaitable THEN Append(@, "ok") ELSE @,
                        !.working = @ - 1,
                        !.dec[t] = @ + 1,
                        !.finallies = @ + 1]
    IN  discard(settle(s1, t, Fulfilled(OpValue(t, a.attempt, a.awaitable))), t)

\* A .catch handler of #processQueue that rejects with the stored failure.
catchRetryStoredError(s, a, r) ==
    LET t == a.job
        e == OpError(t, a.attempt, r)
        s1 == [s EXCEPT !.inflight = @ \ {a},
                        !.hist[t] = Append(@, IF r THEN "retryable" ELSE "fatal"),
                        !.checks[t] = @ + 1,
                        !.finallies = @ + 1]
    IN  IF ~check(e)
        THEN discard(settle([s1 EXCEPT !.working = @ - 1, !.dec[t] = @ + 1], t,
                            Rejected(s.task[t].error)), t)
        ELSE [s1 EXCEPT !.task[t].lastAttempt = Date_now,
                        !.retrying = Append(@, t)]

\* The .catch handler of #processQueue (lines 437-449)
catchRetry(s, a, r) ==
    LET t == a.job
        e == OpError(t, a.attempt, r)
        s1 == [s EXCEPT !.inflight = @ \ {a},
                        !.hist[t] = Append(@, IF r THEN "retryable" ELSE "fatal"),
                        !.checks[t] = @ + 1,
                        !.finallies = @ + 1]
    IN  IF ~check(e)
        THEN discard(settle([s1 EXCEPT !.working = @ - 1, !.dec[t] = @ + 1], t,
                            Rejected(e)), t)
        ELSE [s1 EXCEPT !.task[t].lastAttempt = Date_now,
                        !.retrying = Append(@, t)]

\* The .finally handler of #processQueue (lines 450-453), and the timer
\* callback of processAgain (lines 390-393)
pendingThenQueue(s, k, q) == processQueue(processPending(s, k), q)

\* An abort listener that also takes the task out of the retry-wait list
\* and gives its slot back.
onAbortReleases(s, t) ==
    LET s1 == settle(s, t, Rejected(AbortReason(t)))
    IN  [s1 EXCEPT !.retrying = SelectSeq(@, LAMBDA u : u # t),
                   !.working = @ - 1,
                   !.dec[t] = @ + 1]

\* The abort listener (lines 332-335)
onAbort(s, t) == settle(s, t, Rejected(AbortReason(t)))

\* A retry() without signal?.throwIfAborted().
retryNoAbortCheck(s, t, sig, k) ==
    processPending([s EXCEPT !.promise[t] = Pending, !.pending = Append(@, t)], k)

\* retry(fn, { signal }) (lines 351-361) for job t: sig is the state of the
\* signal passed.  An aborted signal makes retry() throw signal.reason.
retry(s, t, sig, k) ==
    IF sig = "aborted"
    THEN [s EXCEPT !.promise[t] = Threw(AbortReason(t))]
    ELSE processPending([s EXCEPT !.promise[t] = Pending,
                                  !.pending = Append(@, t)], k)

----------------------------------------------------------------------------
\* Actions

Init ==
    /\ \E c \in CheckArgs : retrier = Constructor(c)
    /\ timeout = TimeoutOption
    /\ maxDelay = MaxDelayOption
    /\ concurrency \in 1..MaxConcurrency
    /\ pending = <<>>
    /\ retrying = <<>>
    /\ working = 0
    /\ timerId = FALSE
    /\ timers = 0
    /\ task = <<>>
    /\ promise = [t \in Jobs |-> NoPromise]
    /\ signal = [t \in Jobs |-> "none"]
    /\ listener = [t \in Jobs |-> FALSE]
    /\ inflight = {}
    /\ finallies = 0
    /\ lost = {}
    /\ submitted = 0
    /\ calls = [t \in Jobs |-> 0]
    /\ hist = [t \in Jobs |-> <<>>]
    /\ inc = [t \in Jobs |-> 0]
    /\ dec = [t \in Jobs |-> 0]
    /\ checks = [t \in Jobs |-> 0]
    /\ settles = [t \in Jobs |-> 0]
    /\ seen = [t \in Jobs |-> {}]

Range(q) == {q[i] : i \in 1..Len(q)}

\* The oracles of a callback that runs #processPending in state s: what the
\* first invocation of each pending job does.  Only the jobs the loop reaches
\* before the free slots are taken are invoked, so the choice is left open
\* for those alone.
Oracles(s) ==
    {k \in [Range(s.pending) -> Kinds] :
        \A i \in 1..Len(s.pending) :
            Cardinality({j \in 1..(i - 1) : k[s.pending[j]] = "thenable"})
                    >= concurrency - s.working
                => k[s.pending[i]] = "thenable"}

\* The oracles of a callback that runs #processQueue in state s: what the
\* retry invocation does, if the pass makes one.
RetryOracles(s) ==
    IF /\ Len(s.retrying) > 0
       /\ ~isTimeToBail(s.task[Head(s.retrying)], timeout)
       /\ isTimeToRetry(s.task[Head(s.retrying)], maxDelay)
    THEN Kinds
    ELSE {"thenable"}

\* The next retry() call
Retry ==
    /\ retrier.state = "created"
    /\ submitted < MaxJobs
    /\ LET t == submitted + 1
       IN  /\ submitted' = t
           /\ \E sig \in {"none", "idle", "aborted"} :
                /\ signal' = [signal EXCEPT ![t] = sig]
                /\ \E k \in Oracles([Cur EXCEPT !.pending = Append(@, t)]) :
                      Commit(retry(Cur, t, sig, k))
    /\ UNCHANGED config

\* The callback of the timer set by processAgain.  Timers are macrotasks:
\* they run only when no promise reaction is waiting.
TimerFire ==
    /\ timers > 0
    /\ finallies = 0
    /\ \E ref \in BOOLEAN :
         /\ ref => timerId
         /\ ~ref => timers > (IF timerId THEN 1 ELSE 0)
         /\ LET s1 == [Cur EXCEPT !.timers = @ - 1,
                                  !.timerId = IF ref THEN FALSE ELSE @]
            IN  \E k \in Oracles(s1), q \in RetryOracles(s1) :
                    Commit(pendingThenQueue(s1, k, q))
    /\ UNCHANGED <<config, signal, submitted>>

\* One millisecond passes.
Tick ==
    /\ task' = [t \in DOMAIN task |->
                  [task[t] EXCEPT !.timestamp = Max(@ - 1, 0),
                                  !.lastAttempt = Max(@ - 1, 0)]]
    /\ UNCHANGED <<config, pending, retrying, working, timerId, timers, promise,
                   signal, listener, inflight, finallies, lost, submitted, calls,
                   hist, inc, dec, checks, settles, seen>>

\* The awaitable of first attempt a fulfils.
FirstFulfilOf(a) ==
    /\ a.first
    /\ \E k \in Oracles([Cur EXCEPT !.working = @ - 1]) :
          Commit(thenFirst(Cur, a, k))
    /\ UNCHANGED <<config, signal, submitted>>

\* The awaitable of first attempt a rejects.
FirstRejectOf(a) ==
    /\ a.first
    /\ \E r \in BOOLEAN :
          LET e == OpError(a.job, a.attempt, r)
              s1 == [Cur EXCEPT !.task = (a.job :> RetryTask(e)) @@ @,
                                !.retrying = Append(@, a.job)]
          IN  \E q \in (IF check(e) THEN RetryOracles(s1) ELSE {"thenable"}) :
                  Commit(catchFirst(Cur, a, r, q))
    /\ UNCHANGED <<config, signal, submitted>>

\* The awaitable of retry attempt a fulfils (a non-thenable result, wrapped
\* by Promise.resolve, is a promise already fulfilled).
RetryFulfilOf(a) ==
    /\ ~a.first
    /\ Commit(thenRetry(Cur, a))
    /\ UNCHANGED <<config, signal, submitted>>

\* The awaitable of retry attempt a rejects.
RetryRejectOf(a) ==
    /\ ~a.first
    /\ a.awaitable
    /\ \E r \in BOOLEAN : Commit(catchRetry(Cur, a, r))
    /\ UNCHANGED <<config, signal, submitted>>

FirstFulfil == \E a \in inflight : FirstFulfilOf(a)
FirstReject == \E a \in inflight : FirstRejectOf(a)
RetryFulfil == \E a \in inflight : RetryFulfilOf(a)
RetryReject == \E a \in inflight : RetryRejectOf(a)

\* A .finally reaction of #processQueue runs.
Finally ==
    /\ finallies > 0
    /\ LET s1 == [Cur EXCEPT !.finallies = @ - 1]
       IN  \E k \in Oracles(s1), q \in RetryOracles(s1) :
               Commit(pendingThenQueue(s1, k, q))
    /\ UNCHANGED <<config, signal, submitted>>

\* The AbortSignal of a job triggers.
Abort ==
    /\ \E t \in 1..submitted :
         /\ signal[t] = "idle"
         /\ signal' = [signal EXCEPT ![t] = "aborted"]
         /\ IF listener[t] THEN Commit(onAbort(Cur, t)) ELSE Commit(Cur)
    /\ UNCHANGED <<config, submitted>>

Next ==
    \/ Retry
    \/ TimerFire
    \/ Tick
    \/ FirstFulfil
    \/ FirstReject
    \/ RetryFulfil
    \/ RetryReject
    \/ Finally
    \/ Abort

Spec == Init /\ [][Next]_vars

\* Some attempt of job t settles.
SettleOf(t) ==
    \E a \in inflight :
        /\ a.job = t
        /\ FirstFulfilOf(a) \/ FirstRejectOf(a) \/ RetryFulfilOf(a) \/ RetryRejectOf(a)

\* The scheduling the event loop guarantees: a timer that is set fires, a
\* promise reaction that is queued runs, time passes; and the assumption
\* made of the operations: every awaitable they return settles.
Fairness ==
    /\ WF_vars(TimerFire)
    /\ WF_vars(Finally)
    /\ WF_vars(Tick)
    /\ \A t \in Jobs : WF_vars(SettleOf(t))

FairSpec == Spec /\ Fairness

\* The next retry() call, made without options: retry(fn)
RetryPlain ==
    /\ retrier.state = "created"
    /\ submitted < QueueJobs
    /\ LET t == submitted + 1
       IN  /\ submitted' = t
           /\ \E k \in Oracles([Cur EXCEPT !.pending = Append(@, t)]) :
                 Commit(retry(Cur, t, "none", k))
    /\ UNCHANGED <<config, signal>>

\* The behaviours of a scheduler none of whose jobs has a signal: with no
\* signal there is no abort listener, and more jobs can be followed.
QueueNext ==
    \/ RetryPlain
    \/ TimerFire
    \/ Tick
    \/ FirstFulfil
    \/ FirstReject
    \/ RetryFulfil
    \/ RetryReject
    \/ Finally

QueueSpec == Init /\ [][QueueNext]_vars

FairQueueSpec == QueueSpec /\ Fairness

\* A scheduler whose timeout and maxDelay leave room for the delay between
\* attempts to grow before it meets maxDelay.
BackoffInit ==
    /\ retrier = Constructor("function")
    /\ timeout = BackoffTimeout
    /\ maxDelay = BackoffMaxDelay
    /\ concurrency \in 1..MaxConcurrency
    /\ pending = <<>>
    /\ retrying = <<>>
    /\ working = 0
    /\ timerId = FALSE
    /\ timers = 0
    /\ task = <<>>
    /\ promise = [t \in Jobs |-> NoPromise]
    /\ signal = [t \in Jobs |-> "none"]
    /\ listener = [t \in Jobs |-> FALSE]
    /\ inflight = {}
    /\ finallies = 0
    /\ lost = {}
    /\ submitted = 0
    /\ calls = [t \in Jobs |-> 0]
    /\ hist = [t \in Jobs |-> <<>>]
    /\ inc = [t \in Jobs |-> 0]
    /\ dec = [t \in Jobs |-> 0]
    /\ checks = [t \in Jobs |-> 0]
    /\ settles = [t \in Jobs |-> 0]
    /\ seen = [t \in Jobs |-> {}]

\* The next retry() call, made without options, of the first BackoffJobs
RetryBackoff == submitted < BackoffJobs /\ RetryPlain

BackoffNext ==
    \/ RetryBackoff
    \/ TimerFire
    \/ Tick
    \/ FirstFulfil
    \/ FirstReject
    \/ RetryFulfil
    \/ RetryReject
    \/ Finally

BackoffSpec == BackoffInit /\ [][BackoffNext]_vars

----------------------------------------------------------------------------
\* Vocabulary of the properties

InSeq(t, q) == \E i \in 1..Len(q) : q[i] = t

Settled(t) == promise[t].state \in {"fulfilled", "rejected"}

\* The invocations of job t so far: n - 1 retryable failures, then outcome o.
EndsWith(t, n, o) ==
    /\ Len(hist[t]) = n
    /\ hist[t][n] = o
    /\ \A i \in 1..(n - 1) : hist[t][i] = "retryable"

\* The first attempt of job t failed retryably: its task entered #retrying.
Entered(t) == Len(hist[t]) > 0 /\ hist[t][1] = "retryable"

\* #call of the job at the head of #pending, when its operation does k
CallHead(k) == Call([Cur EXCEPT !.pending = Tail(@)], Head(pending), k)

----------------------------------------------------------------------------
\* C1: with timers firing, reactions running, time passing and every
\* awaitable settling, every promise returned by retry() is eventually
\* settled.
C1_EventuallySettled ==
    \A t \in Jobs : (promise[t].state = "pending") ~> Settled(t)

\* C2: once the promise of a retry() call is settled, its outcome never
\* changes: every later resolve/reject call on it is a no-op.
C2_OutcomeFixed ==
    [][\A t \in Jobs : Settled(t) => promise'[t] = promise[t]]_vars

\* A job rejected by its abort listener whose attempt ended afterwards: the
\* second settle call changed nothing.
C2_Witness ==
    \E t \in Jobs :
        /\ settles[t] = 2
        /\ dec[t] = 1
        /\ promise[t] = Rejected(AbortReason(t))

\* C3: an operation that fails retryably on attempts 1..N-1 and fulfils on
\* attempt N, with no abort triggered, has its promise fulfilled with the
\* value of attempt N and is invoked exactly N times, never again.
C3_SucceedsOnNth ==
    \A t \in Jobs : \A n \in 1..Len(hist[t]) :
        (EndsWith(t, n, "ok") /\ signal[t] # "aborted")
            => /\ promise[t] = Fulfilled(OpValue(t, n, TRUE))
               /\ calls[t] = n
               /\ ~InSeq(t, pending)
               /\ ~InSeq(t, retrying)
               /\ \A a \in inflight : a.job # t

\* A job fulfilled by its third attempt.
C3_Witness ==
    \E t \in Jobs :
        /\ EndsWith(t, 3, "ok")
        /\ signal[t] # "aborted"
        /\ promise[t] = Fulfilled(OpValue(t, 3, TRUE))

\* C4: a first attempt that rejects with a non-retryable failure rejects the
\* promise with that very failure; the operation is invoked once, working is
\* decremented and no task enters the retry-wait list.
C4_NonRetryableFirst ==
    /\ [](\A t \in Jobs :
            EndsWith(t, 1, "fatal")
                => /\ promise[t] = Rejected(OpError(t, 1, FALSE))
                   /\ calls[t] = 1
                   /\ dec[t] = 1
                   /\ t \notin DOMAIN task
                   /\ ~InSeq(t, retrying))
    /\ [][\A t \in Jobs :
            (hist[t] = <<>> /\ EndsWith(t, 1, "fatal")')
                => /\ working' = working - 1
                   /\ retrying' = retrying
                   /\ task' = task]_vars

\* A job whose first attempt failed non-retryably while another job waited
\* in the retry-wait list.
C4_Witness ==
    \E t \in Jobs :
        /\ EndsWith(t, 1, "fatal")
        /\ promise[t] = Rejected(OpError(t, 1, FALSE))
        /\ Len(retrying) > 0

\* C5 as stated: after retryable failures, a non-retryable failure on a
\* later attempt rejects the promise with that later failure, the task is
\* not requeued and working is decremented exactly once.
C5_Original ==
    \A t \in Jobs : \A n \in 2..Len(hist[t]) :
        EndsWith(t, n, "fatal")
            => /\ promise[t] = Rejected(OpError(t, n, FALSE))
               /\ ~InSeq(t, retrying)
               /\ dec[t] = 1

\* C5 as amended: the same, except that a promise the abort listener has
\* already rejected keeps the abort reason; it is never rejected with an
\* earlier retryable failure.
C5_LaterFailureWins ==
    /\ [](\A t \in Jobs : \A n \in 2..Len(hist[t]) :
            EndsWith(t, n, "fatal")
                => /\ \/ promise[t] = Rejected(OpError(t, n, FALSE))
                      \/ /\ promise[t] = Rejected(AbortReason(t))
                         /\ signal[t] = "aborted"
                         /\ listener[t]
                   /\ ~InSeq(t, retrying)
                   /\ calls[t] = n
                   /\ dec[t] = 1)
    /\ [][\A t \in Jobs : \A n \in 2..Len(hist'[t]) :
            (Len(hist[t]) = n - 1 /\ EndsWith(t, n, "fatal")')
                => /\ working' = working - 1
                   /\ retrying' = retrying
                   /\ ~Settled(t) => promise'[t] = Rejected(OpError(t, n, FALSE))]_vars

\* A job rejected with the non-retryable failure of its third attempt.
C5_Witness ==
    \E t \in Jobs :
        /\ EndsWith(t, 3, "fatal")
        /\ promise[t] = Rejected(OpError(t, 3, FALSE))

C7_NotAPromise ==
    /\ \A t \in Jobs :
          EndsWith(t, 1, "value")
              => /\ promise[t] = Rejected(NotPromiseError)
                 /\ calls[t] = 1
                 /\ inc[t] = 0
                 /\ dec[t] = 0
                 /\ t \notin DOMAIN task
                 /\ \A a \in inflight : a.job # t
    /\ Len(pending) > 0
          => LET t == Head(pending)
                 s == CallHead("value")
             IN  /\ s.promise[t] = Rejected(NotPromiseError)
                 /\ s.calls[t] = 1
                 /\ s.working = working
                 /\ s.retrying = retrying
                 /\ s.task = task
                 /\ s.inflight = inflight

\* A job rejected for its non-thenable result.
C7_Witness ==
    \E t \in Jobs :
        /\ EndsWith(t, 1, "value")
        /\ promise[t] = Rejected(NotPromiseError)
        /\ working > 0

\* C8: retry() with a signal that is already aborted fails at once with the
\* signal's reason, never invokes the operation, and leaves the pending
\* list, the retry-wait list, working and the timer as they were.
C8_AlreadyAborted ==
    /\ [](\A t \in Jobs :
            (t > submitted \/ promise[t].state = "threw")
                => /\ calls[t] = 0
                   /\ ~InSeq(t, pending)
                   /\ ~InSeq(t, retrying)
                   /\ \A a \in inflight : a.job # t)
    /\ [][\A t \in Jobs :
            (submitted' = t /\ submitted = t - 1 /\ signal'[t] = "aborted")
                => /\ promise'[t] = Threw(AbortReason(t))
                   /\ UNCHANGED <<pending, retrying, working, timerId, timers,
                                  task, inflight, finallies, calls>>]_vars

\* retry() threw for an aborted signal while the scheduler was busy.
C8_Witness ==
    \E t \in Jobs :
        /\ promise[t] = Threw(AbortReason(t))
        /\ signal[t] = "aborted"
        /\ working > 0

\* C9: a signal that triggers after its task has entered the retry-wait
\* list and before the promise is settled rejects the promise with the
\* signal's reason at that moment, timeout or not.
C9_AbortRejects ==
    [][\A t \in Jobs :
         (/\ signal[t] = "idle"
          /\ signal'[t] = "aborted"
          /\ Entered(t)
          /\ ~Settled(t))
             => promise'[t] = Rejected(AbortReason(t))]_vars

\* A task rejected by its signal while it waits in the retry-wait list,
\* within its timeout.
C9_Witness ==
    \E t \in Jobs :
        /\ InSeq(t, retrying)
        /\ ~isTimeToBail(task[t], timeout)
        /\ settles[t] = 1
        /\ promise[t] = Rejected(AbortReason(t))

\* A task rejected by its signal while its retry attempt is in flight.
C9_WitnessInFlight ==
    \E t \in Jobs :
        /\ \E a \in inflight : a.job = t /\ ~a.first
        /\ settles[t] = 1
        /\ promise[t] = Rejected(AbortReason(t))

\* C10: working stays between 0 and the concurrency ceiling.
C10_WorkingInBounds == 0 <= working /\ working <= concurrency

\* The ceiling is reached with a job left pending, after a task of the
\* scheduler has already ended.
C10_Witness ==
    /\ working = concurrency
    /\ Len(pending) > 0
    /\ \E t \in Jobs : hist[t] # <<>>

\* The retry() calls made so far have all ended, none by its abort listener.
AllEnded ==
    /\ submitted > 0
    /\ \A t \in 1..submitted :
          \/ promise[t].state = "threw"
          \/ Settled(t) /\ promise[t] # Rejected(AbortReason(t))

\* The retry() calls made so far all returned a promise, and no attempt has
\* ended yet: every operation invoked returned an awaitable still unsettled.
JustSubmitted ==
    /\ submitted > 0
    /\ \A t \in 1..submitted : promise[t] = Pending /\ hist[t] = <<>>

\* C11: right after P retry() calls on an idle scheduler, with operations
\* that return awaitables, working = min(P, C) and pending = max(P - C, 0);
\* once all P promises are settled, none by abort, working, pending and the
\* retry-wait list are back at 0.
C11_CountsAfterSubmission ==
    /\ JustSubmitted
          => /\ working = Min(submitted, concurrency)
             /\ Len(pending) = Max(submitted - concurrency, 0)
             /\ Len(retrying) = 0
    /\ AllEnded
          => /\ working = 0
             /\ Len(pending) = 0
             /\ Len(retrying) = 0

\* All the calls have ended under ceiling 1, one of them after a retry and
\* one admitted from the pending list.
C11_Witness ==
    /\ AllEnded
    /\ submitted >= 2
    /\ concurrency = 1
    /\ \A t \in 1..submitted :
          /\ Settled(t)
          /\ \A i \in 1..Len(hist[t]) : hist[t][i] \in {"ok", "retryable", "fatal"}
    /\ \E t \in Jobs : Len(hist[t]) >= 2

\* More calls than the ceiling have just been made.
C11_WitnessSubmitted ==
    /\ JustSubmitted
    /\ submitted > concurrency
    /\ Len(pending) = submitted - concurrency

\* Job t has been counted in working and has not given its slot back.
HoldsSlot(t) == inc[t] = 1 /\ dec[t] = 0

\* C12: a task in the retry-wait list keeps its concurrency slot; under
\* ceiling 1, from the first invocation of a job's operation until the job
\* gives its slot back at its terminal outcome, no operation submitted after
\* it is invoked: it stays in the pending list.
C12_WaitingKeepsSlot ==
    /\ \A t \in Jobs :
          InSeq(t, retrying) => HoldsSlot(t) /\ working >= 1
    /\ concurrency = 1
          => \A t \in Jobs : \A u \in Jobs :
                (HoldsSlot(t) /\ u > t)
                    => /\ calls[u] = 0
                       /\ promise[u] = Pending => InSeq(u, pending)

\* Under ceiling 1 the first job waits for its second retry while the second
\* job is pending, not invoked.
C12_Witness ==
    /\ concurrency = 1
    /\ InSeq(1, retrying)
    /\ calls[1] >= 2
    /\ InSeq(2, pending)
    /\ calls[2] = 0

\* C13: admission is first in, first out: of two retry() calls, the
\* operation of the earlier one is invoked first, whatever completions,
\* retries and timer passes come in between.  The pending list holds
\* uninvoked jobs in the order of their retry() calls, no job is invoked
\* while an earlier call's job is uninvoked, and a callback that admits
\* jobs admits a front part of the pending list.
C13_FifoAdmission ==
    /\ [](/\ \A t \in Jobs : \A u \in Jobs :
                (t < u /\ calls[u] >= 1 /\ promise[t].state # "threw")
                    => calls[t] >= 1
          /\ \A i \in 1..Len(pending) : \A j \in 1..Len(pending) :
                i < j => pending[i] < pending[j]
          /\ \A t \in Range(pending) : calls[t] = 0)
    /\ [][\A i \in 1..Len(pending) : \A j \in 1..(i - 1) :
            calls'[pending[i]] >= 1 => calls'[pending[j]] >= 1]_vars

\* Two jobs wait for admission, in the order of their calls, while the
\* first job has failed once and been retried.
C13_Witness ==
    /\ Len(pending) = 2
    /\ \E t \in Jobs : calls[t] >= 2 /\ HoldsSlot(t)

\* The later of two waiting jobs is still pending after the earlier one was
\* admitted.
C13_WitnessAdmitted ==
    /\ concurrency = 1
    /\ calls[2] >= 1
    /\ InSeq(3, pending)
    /\ Len(hist[1]) >= 2

\* Something is scheduled that will run a callback of the scheduler: a
\* timer, a .finally reaction, or an attempt whose awaitable will settle.
Scheduled == timers > 0 \/ finallies > 0 \/ inflight # {}

\* C14: every terminal outcome of an admitted task decrements working and
\* re-runs the admission loop, so in no reachable state does a job wait in
\* the pending list under a free slot with nothing scheduled that would run
\* the admission loop.
C14_NoStalledPending ==
    ~(Len(pending) > 0 /\ working < concurrency /\ ~Scheduled)

\* The retry loop is about to visit a task whose age exceeds the timeout.
HeadOverAge == Len(retrying) > 0 /\ isTimeToBail(task[Head(retrying)], timeout)

\* What a pass of #processQueue over an over-age head does, whatever else
\* the callback did before: working goes down by exactly one, the operation
\* is not invoked, the task is not requeued, another pass is scheduled.
VisitOverAge ==
    HeadOverAge
        => LET t == Head(retrying)
               s == processQueue(Cur, "thenable")
           IN  /\ s.working = working - 1
               /\ s.dec[t] = dec[t] + 1
               /\ s.calls = calls
               /\ s.inflight = inflight
               /\ ~InSeq(t, s.retrying)
               /\ s.timerId /\ s.timers >= 1
               /\ s.settles[t] = settles[t] + 1

\* An over-age task leaves the retry-wait list in this step: the retry loop
\* has visited it.
Abandoned(t) ==
    /\ InSeq(t, retrying)
    /\ isTimeToBail(task[t], timeout)
    /\ ~InSeq(t, retrying')

\* C15 as stated: the visit of an over-age task rejects the task's promise
\* with the stored failure value, decrements working by exactly one, does
\* not invoke the operation, does not requeue the task and schedules
\* another pass.
C15_Original ==
    /\ []VisitOverAge
    /\ [][\A t \in Jobs :
            Abandoned(t)
                => /\ promise'[t] = Rejected(task[t].error)
                   /\ dec'[t] = dec[t] + 1
                   /\ calls'[t] = calls[t]
                   /\ timerId']_vars

\* C15 as amended: the same, with reject called on the stored failure of
\* the operation; a promise the abort listener has already rejected keeps
\* the abort reason.
C15_Abandonment ==
    /\ []VisitOverAge
    /\ [][\A t \in Jobs :
            Abandoned(t)
                => /\ task[t].error \in {OpError(t, n, TRUE) : n \in 1..calls[t]}
                   /\ ~Settled(t) => promise'[t] = Rejected(task[t].error)
                   /\ Settled(t) => /\ promise'[t] = promise[t]
                                    /\ promise[t] = Rejected(AbortReason(t))
                   /\ settles'[t] = settles[t] + 1
                   /\ dec'[t] = 1
                   /\ calls'[t] = calls[t]
                   /\ \A a \in inflight' : a.job # t
                   /\ timerId' /\ timers' >= 1]_vars

\* A task abandoned after a retry: rejected with a failure of its own
\* operation, its slot given back, another pass scheduled.
C15_Witness ==
    \E t \in Jobs :
        /\ calls[t] >= 2
        /\ hist[t][Len(hist[t])] = "retryable"
        /\ promise[t] = Rejected(OpError(t, 1, TRUE))
        /\ dec[t] = 1
        /\ timerId

\* Some attempt of job t did something else than fail retryably.
Diverted(t) == \E i \in 1..Len(hist[t]) : hist[t][i] # "retryable"

\* Job t was abandoned: its promise is rejected and its slot given back.
GivenUp(t) == promise[t].state = "rejected" /\ dec[t] = 1

\* C16: an operation without a signal that fails retryably on every attempt
\* is not retried forever: with time passing, its promise is eventually
\* rejected and its concurrency slot released.
C16_RetriesEnd ==
    \A t \in Jobs :
        (Entered(t) /\ signal[t] = "none") ~> (Diverted(t) \/ GivenUp(t))

\* The same, in behaviours where no retry invocation of any job throws.
C16_RetriesEndUnlessLost ==
    \A t \in Jobs :
        (Entered(t) /\ signal[t] = "none")
            ~> (Diverted(t) \/ GivenUp(t) \/ lost # {})

\* C17: a constructor call whose check is not a function throws "Missing
\* function to check errors" and leaves no scheduler: no retry() call is
\* ever made on it and nothing ever runs.
C17_MissingCheck ==
    typeOf(retrier.check) # "function"
        => /\ retrier.state = "threw"
           /\ retrier.reason = MissingCheckError
           /\ submitted = 0
           /\ \A t \in Jobs : promise[t] = NoPromise /\ calls[t] = 0
           /\ ~Scheduled

\* The constructor was given null, whose typeof is "object", and threw.
C17_Witness ==
    /\ retrier.check = "null"
    /\ retrier.state = "threw"
    /\ retrier.reason = MissingCheckError

\* C18: failures are isolated per submission: how one job's operation fails
\* changes no other job's outcome.  A job whose own attempts all behaved
\* reaches an outcome in the run where the other jobs succeed at once, so
\* it must reach one in every run: when nothing is left to run, a promise
\* still pending belongs to a job whose own retry invocation threw.
C18_Isolated ==
    ~Scheduled => \A u \in 1..submitted : promise[u] = Pending => u \in lost

\* One of the two runs: job 1 fails retryably, then non-retryably on its
\* retry, and job 2, admitted afterwards under ceiling 1, is invoked once
\* and fulfilled.
C18_Witness ==
    /\ concurrency = 1
    /\ ~Scheduled
    /\ hist[1] = <<"retryable", "fatal">>
    /\ hist[2] = <<"ok">>
    /\ calls[2] = 1
    /\ promise[2] = Fulfilled(OpValue(2, 1, TRUE))

\* The other run: job 1 fails non-retryably at once, and job 2, whose
\* operation is the same, is never invoked and its promise never settled.
C18_WitnessOther ==
    /\ concurrency = 1
    /\ ~Scheduled
    /\ hist[1] = <<"fatal">>
    /\ calls[2] = 0
    /\ promise[2] = Pending

\* C19: a task abandoned on timeout after several retryable failures is
\* rejected with the failure of its most recent attempt: the stored error
\* is overwritten on every retryable failure, those of retry attempts
\* included.
C19_MostRecentFailure ==
    /\ [](\A t \in DOMAIN task :
            InSeq(t, retrying) => task[t].error = OpError(t, calls[t], TRUE))
    /\ [][\A t \in Jobs :
            (Abandoned(t) /\ ~Settled(t))
                => promise'[t] = Rejected(OpError(t, calls[t], TRUE))]_vars

\* What the code does instead: the stored error is the failure of the first
\* attempt, and an abandoned task is rejected with it however many retries
\* failed since.
C19_FirstFailureKept ==
    /\ [](\A t \in DOMAIN task : task[t].error = OpError(t, 1, TRUE))
    /\ [][\A t \in Jobs :
            (Abandoned(t) /\ ~Settled(t))
                => promise'[t] = Rejected(OpError(t, 1, TRUE))]_vars

\* A retry invocation of job t threw.
ThrewOnRetry(t) == Len(hist[t]) >= 2 /\ hist[t][Len(hist[t])] = "throw"

\* C20: a throw of the operation on a retry attempt is terminal: the task's
\* promise is rejected, working is decremented, the task is not retried
\* again, and the retry loop keeps running for the other waiting tasks.
C20_ThrowOnRetryTerminal ==
    \A t \in Jobs :
        ThrewOnRetry(t)
            => /\ promise[t].state = "rejected"
               /\ dec[t] = 1
               /\ ~InSeq(t, retrying)
               /\ \A a \in inflight : a.job # t
               /\ Len(retrying) > 0 => Scheduled

\* What the code does instead: the task is dropped from the retry-wait list
\* and never invoked again, but it keeps its slot, and its promise is left
\* as it was.
C20_ThrowOnRetryDropsTask ==
    /\ [](\A t \in Jobs :
            ThrewOnRetry(t)
                => /\ t \in lost
                   /\ HoldsSlot(t)
                   /\ ~InSeq(t, retrying)
                   /\ \A a \in inflight : a.job # t
                   /\ promise[t] \in {Pending, Rejected(AbortReason(t))})
    /\ [][\A t \in Jobs :
            ThrewOnRetry(t) => calls'[t] = calls[t] /\ hist'[t] = hist[t]]_vars

\* A retry invocation of job t returned a value that is no thenable.
ValueOnRetry(t) == Len(hist[t]) >= 2 /\ hist[t][Len(hist[t])] = "value"

\* No attempt of job t is in flight.
NotInFlight(t) == \A a \in inflight : a.job # t

\* C21: the awaitable-shape check applies to every attempt: a retry attempt
\* that returns a value without a then method rejects the task's promise
\* with "Result is not a promise."; the promise is never fulfilled with
\* that value.
C21_ShapeCheckOnRetry ==
    \A t \in Jobs :
        /\ promise[t].state = "fulfilled" => promise[t].value.awaited
        /\ (ValueOnRetry(t) /\ NotInFlight(t))
              => promise[t] \in {Rejected(NotPromiseError),
                                 Rejected(AbortReason(t))}

\* What the code does instead: Promise.resolve turns the value into a
\* fulfilled promise, and the task's promise is fulfilled with the value
\* (unless its abort listener rejected it first); the slot is given back.
C21_ValueOnRetryFulfils ==
    \A t \in Jobs :
        (ValueOnRetry(t) /\ NotInFlight(t))
            => /\ promise[t] \in {Fulfilled(OpValue(t, calls[t], FALSE)),
                                  Rejected(AbortReason(t))}
               /\ dec[t] = 1
               /\ ~InSeq(t, retrying)

\* Time since the last attempt of the task of job t, in ms.
Elapsed(t) == Date_now - task[t].lastAttempt

\* min(1.2 * max(lastAttempt - createdAt, 1), maxDelay) for the task of job
\* t, in tenths of a millisecond.
Required10(t) ==
    Min(12 * Max(task[t].lastAttempt - task[t].timestamp, 1), 10 * maxDelay)

\* The retry loop is about to visit a task that is within its timeout and
\* not yet due.
HeadNotDue ==
    /\ Len(retrying) > 0
    /\ ~isTimeToBail(task[Head(retrying)], timeout)
    /\ 10 * Elapsed(Head(retrying)) < Required10(Head(retrying))

\* A pass over a head that is not due pushes it back and invokes nothing,
\* whatever the operation would have done.
VisitNotDue ==
    HeadNotDue
        => \A q \in Kinds :
              LET s == processQueue(Cur, q)
              IN  /\ s.calls = calls
                  /\ s.inflight = inflight
                  /\ s.retrying = Append(Tail(retrying), Head(retrying))
                  /\ s.task = task
                  /\ s.timerId

\* A retry attempt of job t starts in this step.
RetryStarted(t) == calls[t] >= 1 /\ calls'[t] = calls[t] + 1

\* C22: a retry attempt of a task starts only in a pass where the time
\* since its last attempt is at least
\* min(1.2 * max(lastAttempt - createdAt, 1), maxDelay); otherwise the task
\* is pushed back and nothing is invoked in that pass.
C22_RetryOnlyWhenDue ==
    /\ []VisitNotDue
    /\ [][\A t \in Jobs :
            RetryStarted(t)
                => /\ t \in DOMAIN task
                   /\ 10 * Elapsed(t) >= Required10(t)
                   /\ ~isTimeToBail(task[t], timeout)]_vars

\* The second retry of a task has just started, at an age that shows it
\* waited out a delay longer than the first one.
C22_Witness ==
    \E t \in DOMAIN task :
        /\ calls[t] = 3
        /\ ~NotInFlight(t)
        /\ task[t].lastAttempt = Date_now
        /\ age(task[t]) >= 5

\* A task whose last attempt was 2 ms after its first failure is visited
\* 2 ms later, before its delay of 2.4 ms is over.
C22_WitnessNotDue ==
    /\ HeadNotDue
    /\ Elapsed(Head(retrying)) = 2
    /\ Required10(Head(retrying)) = 24

\* The task of job t exists before and after this step and is within its
\* timeout after it: the retry loop may still compute its delay.
Alive(t) ==
    /\ t \in DOMAIN task
    /\ t \in DOMAIN task'
    /\ ~isTimeToBail(task'[t], timeout')

\* C23: the backoff is monotonic and capped: over the lifetime of a task
\* the delay the retry loop requires never decreases and never exceeds
\* maxDelay; createdAt <= lastAttempt <= now, and createdAt never changes
\* (a tick moves both stored times one millisecond into the past; any
\* other step leaves createdAt alone and leaves lastAttempt or sets it to
\* now).
C23_MonotonicBackoff ==
    /\ [](\A t \in DOMAIN task :
            /\ task[t].timestamp <= task[t].lastAttempt
            /\ task[t].lastAttempt <= Date_now
            /\ desiredDelay10(task[t], maxDelay) <= 10 * maxDelay)
    /\ [][\A t \in Jobs :
            Alive(t)
                => /\ desiredDelay10(task'[t], maxDelay)
                          >= desiredDelay10(task[t], maxDelay)
                   /\ \/ /\ task'[t].timestamp = task[t].timestamp
                         /\ task'[t].lastAttempt \in {task[t].lastAttempt, Date_now}
                      \/ /\ task'[t].timestamp = task[t].timestamp - 1
                         /\ task'[t].lastAttempt = task[t].lastAttempt - 1]_vars

\* A task within its timeout whose delay has grown from 1.2 ms to the cap.
C23_Witness ==
    \E t \in DOMAIN task :
        /\ InSeq(t, retrying)
        /\ calls[t] >= 3
        /\ ~isTimeToBail(task[t], timeout)
        /\ task[t].lastAttempt - task[t].timestamp >= 3
        /\ desiredDelay10(task[t], maxDelay) = 10 * maxDelay

\* The number of places of sequence q that hold job t.
Occurrences(t, q) == Cardinality({i \in 1..Len(q) : q[i] = t})

\* The number of places among the pending list, the attempts in flight and
\* the retry-wait list that hold job t.
Places(t) ==
    Occurrences(t, pending) + Occurrences(t, retrying)
        + Cardinality({a \in inflight : a.job = t})

\* C24: every submitted task is in at most one of the pending list, an
\* attempt in flight and the retry-wait list, and at most once in the
\* retry-wait list.
C24_OnePlace ==
    \A t \in Jobs :
        /\ Places(t) <= 1
        /\ t > submitted => Places(t) = 0

\* Three jobs, one in each place.
C24_Witness ==
    /\ Len(pending) = 1
    /\ Len(retrying) = 1
    /\ Cardinality(inflight) = 1
    /\ \E t \in Jobs : InSeq(t, retrying) /\ calls[t] >= 2

\* The attempts of job t in flight.
InFlightOf(t) == {a \in inflight : a.job = t}

\* C25: at most one attempt of a task is in flight at any time: the
\* operation is never invoked again while the awaitable of its previous
\* attempt is unsettled, whatever timer passes, failures of other tasks and
\* aborts come in between.  The attempt in flight is always the latest
\* invocation, and a step that invokes the operation leaves no earlier
\* attempt of it in flight.
C25_OneAttemptInFlight ==
    /\ [](\A t \in Jobs :
            /\ Cardinality(InFlightOf(t)) <= 1
            /\ \A a \in InFlightOf(t) : a.attempt = calls[t])
    /\ [][\A t \in Jobs :
            calls'[t] # calls[t]
                => /\ calls'[t] = calls[t] + 1
                   /\ \A a \in InFlightOf(t)' : a.attempt = calls'[t]]_vars

\* The retry attempt of a task whose promise an abort has already rejected
\* is in flight while another task waits in the retry-wait list with a
\* timer set.
C25_Witness ==
    \E t \in Jobs :
        /\ \E a \in InFlightOf(t) : a.attempt >= 2
        /\ promise[t] = Rejected(AbortReason(t))
        /\ Len(retrying) > 0
        /\ timers > 0

\* Per job, working is incremented at most once, when the first attempt
\* produced an awaitable, and decremented at most once, after that.
CountedAtMostOnce ==
    \A t \in Jobs :
        /\ inc[t] <= 1
        /\ dec[t] <= inc[t]
        /\ inc[t] = 1 => calls[t] >= 1 /\ hist[t] # <<"throw">> /\ hist[t] # <<"value">>

\* C26: per task, working is incremented at most once and decremented at
\* most once, only after the increment; with timers firing, reactions
\* running, time passing and awaitables settling, every task that was
\* counted is eventually decremented, however it ends.
C26_CountedOnce ==
    /\ []CountedAtMostOnce
    /\ \A t \in Jobs : (inc[t] = 1) ~> (dec[t] = 1)

\* What holds of the code: the counting is never wrong, and every counted
\* task is eventually decremented in the behaviours where no retry
\* invocation throws.
C26_CountedOnceUnlessLost ==
    /\ []CountedAtMostOnce
    /\ \A t \in Jobs : (inc[t] = 1) ~> (dec[t] = 1 \/ lost # {})

\* Nothing is left to do: both lists are empty and no attempt is in flight.
Idle == Len(pending) = 0 /\ Len(retrying) = 0 /\ inflight = {}

\* A step of an idle scheduler that is neither a retry() call nor an abort.
IdleStep == Idle /\ submitted' = submitted /\ signal' = signal

\* From an idle state every callback that still runs uses up one timer or
\* one .finally reaction and sets up nothing new, so that after finitely
\* many of them no timer is left; until the next retry() call the
\* scheduler stays idle and working does not change.
WindsDown ==
    [][IdleStep
          => /\ Idle'
             /\ working' = working
             /\ timers' + finallies' < timers + finallies]_vars

\* C27: the retry loop ends by itself: once the pending list and the
\* retry-wait list are empty and no attempt is in flight, the scheduler
\* comes within finitely many timer callbacks to a state with no timer and
\* working = 0, and stays there until the next retry() call.
C27_SelfTerminating ==
    /\ [](Idle => working = 0 /\ timers <= 1)
    /\ WindsDown

\* What holds of the code: the same, except that every task whose retry
\* invocation threw still holds its slot.
C27_SelfTerminatingUnlessLost ==
    /\ [](Idle => working = Cardinality(lost) /\ timers <= 1)
    /\ WindsDown

\* An idle scheduler with its last timer still set, after a task went
\* through the retry loop.
C27_WitnessTimerLeft ==
    /\ Idle
    /\ timers = 1
    /\ \E t \in Jobs : Len(hist[t]) >= 2

\* C28: at most one wake-up timer is outstanding at any time, and it is the
\* one #timerId names: every pass of the retry loop cancels the timer set
\* before and sets at most one, also when a failure continuation enters
\* the loop while a timer is pending.
C28_OneTimer ==
    /\ [](/\ timers <= 1
          /\ timerId <=> timers = 1)
    /\ [](\A a \in inflight : \A q \in Kinds :
            (a.first /\ timers = 1)
                => catchFirst(Cur, a, TRUE, q).timers <= 1)

\* Two first attempts have failed retryably one after the other with no
\* time in between: the second entered the loop while the timer set by
\* the first was pending, and one timer is outstanding.
C28_Witness ==
    /\ timers = 1
    /\ Len(retrying) = 2
    /\ \A t \in Range(retrying) :
          /\ hist[t] = <<"retryable">>
          /\ task[t].timestamp = Date_now

\* C29 as stated: a task leaves the retry-wait list the moment its promise
\* settles, whatever the kind of settlement: no task in the retry-wait
\* list has a settled promise.
C29_Original ==
    \A t \in Jobs : InSeq(t, retrying) => ~Settled(t)

\* C29 as amended: the same for success, permanent failure and timeout
\* abandonment; the only settled promise a task in the retry-wait list can
\* have is one its abort listener rejected.
C29_SettledLeavesList ==
    \A t \in Jobs :
        (InSeq(t, retrying) /\ Settled(t))
            => /\ promise[t] = Rejected(AbortReason(t))
               /\ signal[t] = "aborted"
               /\ listener[t]
               /\ dec[t] = 0

\* A task is fulfilled by a retry attempt and gone from the retry-wait
\* list, in which another task still waits.
C29_Witness ==
    \E t \in Jobs :
        /\ promise[t].state = "fulfilled"
        /\ calls[t] >= 2
        /\ ~InSeq(t, retrying)
        /\ Len(retrying) > 0

\* The promise of job t was rejected by its abort listener.
Cancelled(t) == promise[t] = Rejected(AbortReason(t))

\* Job t is in retry-wait: its task is in the retry-wait list or its retry
\* attempt is in flight.
Waiting(t) == InSeq(t, retrying) \/ \E a \in InFlightOf(t) : ~a.first

\* The signal of job t triggers in this step, while t is in retry-wait.
AbortsWaiting(t) ==
    /\ signal[t] = "idle"
    /\ signal'[t] = "aborted"
    /\ listener[t]
    /\ Waiting(t)

\* The head of the retry-wait list is cancelled, within its timeout and due.
CancelledHeadDue ==
    /\ Len(retrying) > 0
    /\ Cancelled(Head(retrying))
    /\ ~HeadOverAge
    /\ ~HeadNotDue

\* C30: an abort that fires while a task is in retry-wait only rejects the
\* promise: the retry-wait list, working, the attempts in flight and the
\* timers are as before.  The cancelled task keeps its slot while it waits,
\* a pass that finds it due invokes the operation again, and the visit that
\* ends it gives the slot back with a settle call that leaves the promise
\* rejected with the abort reason.
C30_AbortOnlyRejects ==
    /\ [][\A t \in Jobs :
            AbortsWaiting(t)
                => /\ promise[t] = Pending
                   /\ promise'[t] = Rejected(AbortReason(t))
                   /\ retrying' = retrying
                   /\ pending' = pending
                   /\ working' = working
                   /\ dec' = dec
                   /\ calls' = calls
                   /\ inflight' = inflight
                   /\ task' = task
                   /\ timers' = timers
                   /\ timerId' = timerId]_vars
    /\ [](\A t \in Jobs :
            (Cancelled(t) /\ Waiting(t)) => (HoldsSlot(t) /\ working >= 1))
    /\ [](CancelledHeadDue
            => \A q \in Kinds :
                  processQueue(Cur, q).calls[Head(retrying)]
                      = calls[Head(retrying)] + 1)
    /\ [][\A t \in Jobs :
            Cancelled(t)
                => /\ promise'[t] = promise[t]
                   /\ dec'[t] # dec[t]
                        => /\ dec'[t] = dec[t] + 1
                           /\ working' <= working
                           /\ settles'[t] = settles[t] + 1
                           /\ ~Waiting(t)']_vars

\* A task cancelled while it waited was invoked again, succeeded and gave
\* its slot back; the second settle call left the abort reason in place.
C30_Witness ==
    \E t \in Jobs :
        /\ Cancelled(t)
        /\ calls[t] >= 2
        /\ hist[t][Len(hist[t])] = "ok"
        /\ dec[t] = 1
        /\ settles[t] = 2

\* A cancelled task ended by a non-retryable failure of a retry attempt.
C30_WitnessFatal ==
    \E t \in Jobs :
        /\ Cancelled(t)
        /\ calls[t] >= 2
        /\ hist[t][Len(hist[t])] = "fatal"
        /\ dec[t] = 1
        /\ settles[t] = 2

\* A cancelled task ended by the timeout.
C30_WitnessTimeout ==
    \E t \in Jobs :
        /\ Cancelled(t)
        /\ hist[t][Len(hist[t])] = "retryable"
        /\ dec[t] = 1
        /\ settles[t] = 2

\* A cancelled task at the head of the retry-wait list, due for a retry.
C30_WitnessDue == CancelledHeadDue

\* The first retryable failure of job t has not been handled yet: t is in
\* the pending list or its first attempt is in flight.
BeforeFirstFailure(t) ==
    InSeq(t, pending) \/ \E a \in InFlightOf(t) : a.first

\* The signal of job t triggers in this step, before the first retryable
\* failure of t is handled.
AbortsEarly(t) ==
    /\ signal[t] = "idle"
    /\ signal'[t] = "aborted"
    /\ BeforeFirstFailure(t)

\* C31: a signal that triggers after retry() returned and before the first
\* retryable failure of the task is handled cancels nothing.  The step
\* changes nothing but the signal; the operation of a pending entry whose
\* signal is aborted is still invoked; a retryable failure of the first
\* attempt still puts the task in the retry-wait list, with its promise
\* pending and its slot held; and once the signal is aborted with the
\* promise not rejected by it, no later step rejects the promise with the
\* abort reason.
C31_EarlyAbortIgnored ==
    /\ [][\A t \in Jobs :
            AbortsEarly(t)
                => /\ ~listener[t]
                   /\ promise[t] = Pending
                   /\ UNCHANGED <<pending, retrying, working, timerId, timers,
                                  task, promise, listener, inflight, finallies,
                                  calls, hist, inc, dec, settles>>]_vars
    /\ [](\A k \in Kinds :
            (Len(pending) > 0 /\ signal[Head(pending)] = "aborted")
                => CallHead(k).calls[Head(pending)] = 1)
    /\ [](\A a \in inflight : \A q \in Kinds :
            (a.first /\ signal[a.job] = "aborted")
                => LET s == catchFirst(Cur, a, TRUE, q)
                   IN  /\ InSeq(a.job, s.retrying) \/ s.calls[a.job] = 2
                       /\ s.promise[a.job] = Pending
                       /\ s.dec[a.job] = 0)
    /\ [][\A t \in Jobs :
            (signal[t] = "aborted" /\ ~Cancelled(t)) => ~Cancelled(t)']_vars

\* A task whose signal triggered before its first failure waits in the
\* retry-wait list after a retry attempt of it failed, its promise pending.
C31_Witness ==
    \E t \in Jobs :
        /\ signal[t] = "aborted"
        /\ InSeq(t, retrying)
        /\ calls[t] >= 2
        /\ promise[t] = Pending

\* A pending entry whose signal has triggered.
C31_WitnessPending ==
    Len(pending) > 0 /\ signal[Head(pending)] = "aborted"

\* A task whose signal triggered before its first failure is in its retry
\* attempt, its promise pending.
C31_WitnessRetried ==
    \E t \in Jobs :
        /\ signal[t] = "aborted"
        /\ \E a \in InFlightOf(t) : ~a.first
        /\ promise[t] = Pending

\* The first attempt of job t fulfils in this step.
FulfilsFirst(t) ==
    \E a \in InFlightOf(t) :
        a.first /\ a \notin inflight' /\ hist'[t] = <<"ok">>

\* A retry attempt of job t fulfils in this step.
FulfilsRetry(t) ==
    \E a \in InFlightOf(t) :
        /\ ~a.first
        /\ a \notin inflight'
        /\ hist'[t] = Append(hist[t], "ok") \/ ~a.awaitable

\* The operation of job u is invoked for the first time in this step.
Admitted(u) == calls[u] = 0 /\ calls'[u] = 1

\* C32: when a first attempt fulfils, working is decremented, then the
\* admission loop runs, then the caller's promise is fulfilled: the step
\* decrements working for the task, a pending entry is admitted in it
\* whenever one waits, and every operation invoked in it is invoked while the
\* promise of the fulfilled task is still pending.  When a retry attempt
\* fulfils, the step decrements working and settles the promise and does
\* nothing else: the admission loop and the next retry pass are left to the
\* .finally reaction, and an operation invoked after the step is invoked
\* with the promise already settled.
C32_OrderOfEffects ==
    /\ [][\A t \in Jobs :
            FulfilsFirst(t)
                => /\ dec'[t] = dec[t] + 1
                   /\ promise[t] = Pending
                   /\ promise'[t].state = "fulfilled"
                   /\ Len(pending) > 0 => Admitted(Head(pending))
                   /\ \A u \in Jobs : Admitted(u) => t \notin seen'[u]]_vars
    /\ [][\A t \in Jobs :
            FulfilsRetry(t)
                => /\ dec'[t] = dec[t] + 1
                   /\ working' = working - 1
                   /\ Settled(t)'
                   /\ settles'[t] = settles[t] + 1
                   /\ finallies' = finallies + 1
                   /\ UNCHANGED <<pending, retrying, calls, timers, timerId, seen>>]_vars
    /\ [][\A t \in Jobs : \A u \in Jobs :
            (/\ calls[t] >= 2
             /\ dec[t] = 1
             /\ Admitted(u))
                => t \in seen'[u]]_vars

\* A pending job was admitted by the fulfilment of the first attempt of
\* another, under ceiling 1, while that job's promise was still pending.
C32_Witness ==
    \E t \in Jobs : \E u \in Jobs :
        /\ concurrency = 1
        /\ hist[t] = <<"ok">>
        /\ promise[t].state = "fulfilled"
        /\ u > t
        /\ calls[u] = 1
        /\ t \notin seen[u]
        /\ \E a \in InFlightOf(u) : a.first

\* A pending job waits under ceiling 1 after the retry attempt of another
\* has fulfilled: the promise is fulfilled and working is 0, and the
\* admission loop has not run yet.
C32_WitnessRetry ==
    \E t \in Jobs :
        /\ concurrency = 1
        /\ calls[t] >= 2
        /\ promise[t].state = "fulfilled"
        /\ working = 0
        /\ finallies = 1
        /\ Len(pending) > 0

\* The job admitted after the retry attempt of another fulfilled sees that
\* promise settled.
C32_WitnessRetryAdmitted ==
    \E t \in Jobs : \E u \in Jobs :
        /\ concurrency = 1
        /\ calls[t] >= 2
        /\ promise[t].state = "fulfilled"
        /\ calls[u] = 1
        /\ t \in seen[u]

\* The timers outstanding after a pass that cleared the timer it found and
\* scheduled one.
OneMoreTimer == timers - (IF timerId THEN 1 ELSE 0) + 1

\* A pass of #processQueue touches no waiting task but the head: the others
\* keep their relative order, their record, their promise and their count
\* of invocations, whatever the pass does with the head.
OnlyHeadExamined ==
    Len(retrying) > 0
        => \A q \in Kinds :
              LET t == Head(retrying)
                  s == processQueue(Cur, q)
              IN  /\ s.retrying \in {Tail(retrying), Append(Tail(retrying), t)}
                  /\ \A u \in Range(Tail(retrying)) :
                        /\ s.task[u] = task[u]
                        /\ s.promise[u] = promise[u]
                        /\ s.calls[u] = calls[u]

\* A pass over a head that is within its timeout and not due.
RequeuesHead ==
    HeadNotDue
        => \A q \in Kinds :
              LET s == processQueue(Cur, q)
              IN  /\ s.retrying = Append(Tail(retrying), Head(retrying))
                  /\ s.working = working
                  /\ s.pending = pending
                  /\ s.promise = promise
                  /\ s.calls = calls
                  /\ s.inflight = inflight
                  /\ s.task = task
                  /\ s.timerId
                  /\ s.timers = OneMoreTimer

\* A .finally reaction runs in this step and its admission loop finds
\* nothing to admit.
FinallyPassOnly ==
    /\ finallies' = finallies - 1
    /\ Len(pending) = 0 \/ working >= concurrency

\* C33: a retry-loop pass examines only the head of the retry-wait list.
\* When the head is within its timeout and not yet due, the pass moves it to
\* the back of the list, leaves the order of the other waiting tasks,
\* working, the pending list and every promise as they were, invokes no
\* operation and schedules exactly one further pass.
C33_RequeueFrame ==
    /\ []OnlyHeadExamined
    /\ []RequeuesHead
    /\ [][(HeadNotDue /\ FinallyPassOnly)
            => /\ retrying' = Append(Tail(retrying), Head(retrying))
               /\ timerId'
               /\ timers' = OneMoreTimer
               /\ UNCHANGED <<pending, working, promise, calls, inflight,
                              task, hist, inc, dec, settles>>]_vars

\* Two tasks wait, the head is within its timeout and not due, a third job
\* is pending under the ceiling, and a .finally reaction is about to run
\* the pass.
C33_Witness ==
    /\ HeadNotDue
    /\ Len(retrying) = 2
    /\ Len(pending) = 1
    /\ working = concurrency
    /\ finallies = 1

\* C34: the age compared with the timeout is the time since the retry()
\* call of the task.  Jobs are numbered in the order of their retry()
\* calls, so of two tasks the one submitted first is then at least as old
\* as the other, whenever their first attempts failed.
C34_AgeFromSubmission ==
    \A t \in DOMAIN task : \A u \in DOMAIN task :
        t < u => age(task[t]) >= age(task[u])

\* What the code does instead: the record of a task, and with it the time
\* its age is counted from, is created by the step that handles the failure
\* of its first attempt, never by the retry() call; the time spent in the
\* pending list and in the first attempt is not part of the age.
C34_AgeFromFirstFailure ==
    /\ [][\A t \in Jobs :
            (t \notin DOMAIN task /\ t \in DOMAIN task')
                => /\ \E a \in InFlightOf(t) : a.first /\ a \notin inflight'
                   /\ hist'[t] = <<"retryable">>
                   /\ age(task'[t]) = 0]_vars
    /\ [][submitted' # submitted => DOMAIN task' = DOMAIN task]_vars

\* The job submitted first failed later than the job submitted second, and
\* its task is the younger of the two.
C34_WitnessYounger ==
    /\ DOMAIN task = {1, 2}
    /\ age(task[1]) < age(task[2])
    /\ age(task[2]) <= timeout

\* The task of job t waits in the retry-wait list and its age has passed
\* the timeout.
OverAgeWaiting(t) == InSeq(t, retrying) /\ isTimeToBail(task[t], timeout)

\* The scheduler itself has a pass of the retry loop coming: a timer of
\* processAgain or a .finally reaction is outstanding.
PassComing == timers > 0 \/ finallies > 0

\* C35: a task in retry-wait whose age has passed the timeout is abandoned
\* within one backoff interval: while it waits over age the scheduler has a
\* pass of the retry loop coming, and with timers firing, reactions running
\* and awaitables settling the task leaves the retry-wait list.
C35_BoundedLag ==
    /\ [](\A t \in Jobs : OverAgeWaiting(t) => PassComing)
    /\ \A t \in Jobs : OverAgeWaiting(t) ~> ~InSeq(t, retrying)

\* The second half of C35 alone.
C35_EventuallyAbandoned ==
    \A t \in Jobs : OverAgeWaiting(t) ~> ~InSeq(t, retrying)

\* What holds of the code: a task waits over age with no pass coming only
\* while a retry attempt of another task is in flight, whose .finally
\* reaction will run the next pass, or after a retry invocation threw out
\* of the pass that made it.
C35_LagUnlessPausedOrLost ==
    \A t \in Jobs :
        (OverAgeWaiting(t) /\ ~PassComing)
            => \/ \E a \in inflight : ~a.first /\ a.job # t
               \/ lost # {}

\* A task waits over age with nothing left that would run a pass: the
\* retry invocation of the other task threw.
C35_WitnessStranded ==
    \E t \in Jobs :
        /\ OverAgeWaiting(t)
        /\ ~PassComing
        /\ inflight = {}
        /\ lost # {}

\* A task waits over age while the retry attempt of another is in flight
\* and no timer is set.
C35_WitnessPaused ==
    \E t \in Jobs :
        /\ OverAgeWaiting(t)
        /\ ~PassComing
        /\ lost = {}
        /\ \E a \in inflight : ~a.first /\ a.job # t

\* The promise that #call returns once fn() gave a thenable (lines 312-340),
\* which nothing ever reads: #processPending drops it (line 372).  It is
\* pending while the first attempt is in flight; the handler that runs then
\* returns the caller's promise (lines 318, 324, 339), so that the chain
\* takes the state of that promise from then on.  (A pass that throws at
\* line 337 rejects the chain at once instead; the job that threw is in
\* lost.)
CallChain(t) ==
    IF inc[t] = 0 THEN NoPromise
    ELSE IF \E a \in InFlightOf(t) : a.first THEN Pending
    ELSE promise[t]

\* C36: no promise that the scheduler creates for itself ends rejected
\* with no handler attached, whatever the outcome of the task: the chain
\* that #call builds, which has no handler, is never rejected.
C36_NoUnhandledRejection ==
    \A t \in Jobs : CallChain(t).state # "rejected"

\* The chain of #call ends rejected after a non-retryable failure of the
\* first attempt.
C36_LeakFatal ==
    \E t \in Jobs :
        hist[t] = <<"fatal">> /\ CallChain(t) = Rejected(OpError(t, 1, FALSE))

\* The same after a timeout abandonment.
C36_LeakTimeout ==
    \E t \in Jobs :
        /\ hist[t] = <<"retryable">>
        /\ dec[t] = 1
        /\ CallChain(t) = Rejected(OpError(t, 1, TRUE))

\* The same after an abort.
C36_LeakAbort ==
    \E t \in Jobs : CallChain(t) = Rejected(AbortReason(t))

\* The same after a non-retryable failure of a retry attempt.
C36_LeakAfterRetries ==
    \E t \in Jobs :
        /\ calls[t] >= 2
        /\ CallChain(t) = Rejected(OpError(t, calls[t], FALSE))

====
